---- MODULE Spec2Model ----
(***************************************************************************)
(* Model of the Sheets foreign data wrapper of src/src/lib.rs: the global  *)
(* ExampleFdw instance (base_url, src_rows, src_idx), the Guest lifecycle  *)
(* entry points (init, begin_scan, iter_scan, re_scan, end_scan and the    *)
(* modify stubs), the per-column cell mapping of iter_scan and the date    *)
(* decoder parse_date_from_interface.                                      *)
(*                                                                         *)
(* Strings whose characters the code inspects are sequences of one-        *)
(* character strings.  JSON numbers are fixed-point, in tenths.            *)
(***************************************************************************)
EXTENDS Integers, Sequences, FiniteSets, TLC

(***************************************************************************)
(* Bounds of the model.                                                    *)
(***************************************************************************)
\* longest row array a response carries
MaxRows == 2
\* the count of exhausted pulls stops at this number
MaxNones == 2

(***************************************************************************)
(* Characters and strings.                                                 *)
(***************************************************************************)
DigitChars == <<"0", "1", "2", "3", "4", "5", "6", "7", "8", "9">>

\* The characters str::parse accepts as digits of an i32 / u32.
AsciiDigits == {DigitChars[i] : i \in 1..Len(DigitChars)}

\* A decimal digit outside ASCII (ARABIC-INDIC DIGIT THREE): the regex
\* class \d is Unicode-aware and matches it, str::parse rejects it.
UnicodeDigit == "U+0663"

\* What \d of the regex crate matches.
ReDigit(ch) == ch \in AsciiDigits \cup {UnicodeDigit}

DigitVal(ch) == CHOOSE n \in 0..9 : DigitChars[n + 1] = ch

\* s has the literal lit at position i.
Lit(s, i, lit) ==
    /\ i >= 1
    /\ i + Len(lit) - 1 <= Len(s)
    /\ SubSeq(s, i, i + Len(lit) - 1) = lit

\* s has n characters of class \d at positions i .. i+n-1.
DigitsAt(s, i, n) ==
    /\ i >= 1
    /\ i + n - 1 <= Len(s)
    /\ \A k \in i..(i + n - 1) : ReDigit(s[k])

(***************************************************************************)
(* str::parse::<i32>() / ::<u32>() on a capture of the regex: the capture  *)
(* is non-empty and holds only \d characters, so the parse fails exactly   *)
(* when one of them is not an ASCII digit.  Result: [ok, val].             *)
(***************************************************************************)
RECURSIVE DigitsValue(_)
DigitsValue(s) ==
    IF Len(s) = 0 THEN 0
    ELSE 10 * DigitsValue(SubSeq(s, 1, Len(s) - 1)) + DigitVal(s[Len(s)])

ParseNum(s) ==
    IF Len(s) > 0 /\ \A k \in 1..Len(s) : s[k] \in AsciiDigits
    THEN [ok |-> TRUE, val |-> DigitsValue(s)]
    ELSE [ok |-> FALSE, val |-> 0]

(***************************************************************************)
(* format!("{:0w}", n) for n >= 0: the decimal digits of n, zero-padded on *)
(* the left to at least w characters (never truncated).                    *)
(***************************************************************************)
RECURSIVE ToDigits(_)
ToDigits(n) ==
    IF n < 10 THEN <<DigitChars[n + 1]>>
    ELSE Append(ToDigits(n \div 10), DigitChars[(n % 10) + 1])

RECURSIVE ZeroPad(_, _)
ZeroPad(s, w) == IF Len(s) >= w THEN s ELSE ZeroPad(<<"0">> \o s, w)

FormatPadded(n, w) == ZeroPad(ToDigits(n), w)

(***************************************************************************)
(* Regex::new(r"Date\((\d{4}),(\d{1,2}),(\d{1,2})\)").captures(src):       *)
(* the leftmost match anywhere in src (the pattern is not anchored).       *)
(* Because "," and ")" are not digits, the length of each \d{1,2} group is *)
(* decided by where its delimiter stands.                                  *)
(***************************************************************************)
DatePrefix == <<"D", "a", "t", "e", "(">>

\* Length of the \d{1,2} group at position i that is followed by delim,
\* 0 when there is none.
GroupLen(s, i, delim) ==
    IF DigitsAt(s, i, 2) /\ Lit(s, i + 2, <<delim>>) THEN 2
    ELSE IF DigitsAt(s, i, 1) /\ Lit(s, i + 1, <<delim>>) THEN 1
    ELSE 0

\* The captures of a match starting at position i: [ok, year, month, day].
CapturesAt(s, i) ==
    LET y  == i + Len(DatePrefix)
        m  == y + 5
        ml == GroupLen(s, m, ",")
        d  == m + ml + 1
        dl == GroupLen(s, d, ")")
    IN  IF /\ Lit(s, i, DatePrefix)
           /\ DigitsAt(s, y, 4)
           /\ Lit(s, y + 4, <<",">>)
           /\ ml > 0
           /\ dl > 0
        THEN [ok    |-> TRUE,
              year  |-> SubSeq(s, y, y + 3),
              month |-> SubSeq(s, m, m + ml - 1),
              day   |-> SubSeq(s, d, d + dl - 1)]
        ELSE [ok |-> FALSE, year |-> <<>>, month |-> <<>>, day |-> <<>>]

Captures(s) ==
    LET starts == {i \in 1..Len(s) : CapturesAt(s, i).ok}
    IN  IF starts = {}
        THEN CapturesAt(s, 0)
        ELSE CapturesAt(s, CHOOSE i \in starts : \A j \in starts : i <= j)

(***************************************************************************)
(* The host's calendar-date parser, time::parse_from_str(s, "%Y-%m-%d"),   *)
(* by its contract: a string YYYY-MM-DD naming a date of the proleptic     *)
(* Gregorian calendar parses to that date's offset from 1970-01-01, any    *)
(* other string is an error.  The offset is kept in whole days; the value  *)
(* the host returns is that number of days in microseconds.                *)
(***************************************************************************)
IsLeap(y) == (y % 4 = 0 /\ y % 100 # 0) \/ y % 400 = 0

DaysInMonth(y, m) ==
    IF m = 2 THEN (IF IsLeap(y) THEN 29 ELSE 28)
    ELSE IF m \in {4, 6, 9, 11} THEN 30
    ELSE 31

ValidYmd(y, m, d) == m \in 1..12 /\ d >= 1 /\ d <= DaysInMonth(y, m)

\* Days from 1970-01-01 to the civil date y-m-d.
DaysFromCivil(y, m, d) ==
    LET yy  == IF m <= 2 THEN y - 1 ELSE y
        era == yy \div 400
        yoe == yy - era * 400
        mp  == IF m > 2 THEN m - 3 ELSE m + 9
        doy == (153 * mp + 2) \div 5 + d - 1
        doe == yoe * 365 + yoe \div 4 - yoe \div 100 + doy
    IN  era * 146097 + doe - 719468

\* Result: [ok, days].
TimeParseFromStr(s) ==
    LET y == ParseNum(SubSeq(s, 1, 4))
        m == ParseNum(SubSeq(s, 6, 7))
        d == ParseNum(SubSeq(s, 9, 10))
    IN  IF /\ Len(s) = 10
           /\ s[5] = "-"
           /\ s[8] = "-"
           /\ y.ok /\ m.ok /\ d.ok
           /\ ValidYmd(y.val, m.val, d.val)
        THEN [ok |-> TRUE, days |-> DaysFromCivil(y.val, m.val, d.val)]
        ELSE [ok |-> FALSE, days |-> 0]

(***************************************************************************)
(* Cells (Option<Cell>): a tag, an integer payload and a string payload;   *)
(* the payload a tag does not use is 0 / <<>>.  A Date cell carries the    *)
(* epoch offset the calendar parser returned.                              *)
(***************************************************************************)
NoCell == [tag |-> "None", n |-> 0, s |-> <<>>]
CellI64(v) == [tag |-> "I64", n |-> v, s |-> <<>>]
CellString(v) == [tag |-> "String", n |-> 0, s |-> v]
CellDate(days) == [tag |-> "Date", n |-> days, s |-> <<>>]

(***************************************************************************)
(* parse_date_from_interface                                               *)
(***************************************************************************)
\* let month: u32 = month_str.parse::<u32>().ok()? + 1
AdjustMonth(m) == m + 1

\* A decoder that takes the day of the literal as one-based.
DayKept(d) == d

\* let day: u32 = day_str.parse::<u32>().ok()? + 1
AdjustDay(d) == d + 1

\* format!("{:04}-{:02}-{:02}", year, month, day)
FormatDate(year, month, day) ==
    FormatPadded(year, 4) \o <<"-">> \o FormatPadded(month, 2)
        \o <<"-">> \o FormatPadded(day, 2)

parse_date_from_interface(src) ==
    LET caps  == Captures(src)
        year  == ParseNum(caps.year)
        month == ParseNum(caps.month)
        day   == ParseNum(caps.day)
        formatted_date ==
            FormatDate(year.val, AdjustMonth(month.val), AdjustDay(day.val))
        parsed == TimeParseFromStr(formatted_date)
    IN  IF ~caps.ok THEN NoCell
        ELSE IF ~year.ok THEN NoCell
        ELSE IF ~month.ok THEN NoCell
        ELSE IF ~day.ok THEN NoCell
        ELSE IF parsed.ok THEN CellDate(parsed.days)
        ELSE NoCell

(***************************************************************************)
(* JSON values (serde_json::Value) as far as the code looks into them: a   *)
(* kind t, a number n in tenths (15 is 1.5) and a string s.                *)
(***************************************************************************)
JNull == [t |-> "null", n |-> 0, s |-> <<>>]
JNum(tenths) == [t |-> "num", n |-> tenths, s |-> <<>>]
JStr(str) == [t |-> "str", n |-> 0, s |-> str]

\* An element of a row's "c" array: an object with a member "v", an object
\* without one, or anything that is no container (the null marker).
SrcCell(v) == [obj |-> TRUE, hasV |-> TRUE, v |-> v]
SrcNoV == [obj |-> TRUE, hasV |-> FALSE, v |-> JNull]
SrcNullMarker == [obj |-> FALSE, hasV |-> FALSE, v |-> JNull]

\* A source row: a JSON value that has an array member "c", or has none.
SrcRow(cells) == [hasC |-> TRUE, c |-> cells]
SrcRowNoC == [hasC |-> FALSE, c |-> <<>>]

\* src_row.pointer(&format!("/c/{}/v", idx)): [some, v].
Pointer(src_row, idx) ==
    IF /\ src_row.hasC
       /\ idx >= 0
       /\ idx < Len(src_row.c)
       /\ src_row.c[idx + 1].obj
       /\ src_row.c[idx + 1].hasV
    THEN [some |-> TRUE, v |-> src_row.c[idx + 1].v]
    ELSE [some |-> FALSE, v |-> JNull]

(***************************************************************************)
(* The cell mapping of iter_scan.                                          *)
(***************************************************************************)
\* A match that has an arm for one more type.
SupportedTypesAndBool == {"I64", "String", "Date", "Bool"}

\* The target column types the match of iter_scan has an arm for.
SupportedTypes == {"I64", "String", "Date"}

\* f64 as i64: truncation toward zero.
TruncToI64(tenths) ==
    IF tenths >= 0 THEN tenths \div 10 ELSE -((-tenths) \div 10)

\* src.as_str().unwrap_or("")
AsStrOrEmpty(src) == IF src.t = "str" THEN src.s ELSE <<>>

\* A String arm that writes a number out as text instead of giving None.
MapCellCoercing(type_oid, src) ==
    IF type_oid = "I64"
    THEN (IF src.t = "num" THEN CellI64(TruncToI64(src.n)) ELSE NoCell)
    ELSE IF type_oid = "String"
    THEN (IF src.t = "str" THEN CellString(src.s)
          ELSE IF src.t = "num" THEN CellString(<<"n">>) ELSE NoCell)
    ELSE parse_date_from_interface(AsStrOrEmpty(src))

\* The arms of `match tgt_col.type_oid()` for a supported type.
MapCell(type_oid, src) ==
    IF type_oid = "I64"
    THEN (IF src.t = "num" THEN CellI64(TruncToI64(src.n)) ELSE NoCell)
    ELSE IF type_oid = "String"
    THEN (IF src.t = "str" THEN CellString(src.s) ELSE NoCell)
    ELSE parse_date_from_interface(AsStrOrEmpty(src))

\* The cell pushed when the pointer finds nothing: row.push(None).
AbsentCell(type_oid) == NoCell

\* A loop that checks the column's type before it looks the cell up.
ColumnFailsOnType(src_row, col) == col.type \notin SupportedTypes

\* Whether the column makes iter_scan return the "data type is not
\* supported" error: the default arm, reached only inside `if let Some(src)`.
ColumnFails(src_row, col) ==
    /\ Pointer(src_row, col.num - 1).some
    /\ col.type \notin SupportedTypes

\* The cell one loop iteration pushes for a column that does not fail.
ColumnCell(src_row, col) ==
    LET found == Pointer(src_row, col.num - 1)
    IN  IF found.some THEN MapCell(col.type, found.v) ELSE AbsentCell(col.type)

\* A loop that puts each new cell in front of the cells pushed before it.
RECURSIVE MapColumnsPrepending(_, _, _, _)
MapColumnsPrepending(src_row, cols, i, cells) ==
    IF i > Len(cols) THEN [err |-> FALSE, col |-> "", cells |-> cells]
    ELSE IF ColumnFails(src_row, cols[i])
    THEN [err |-> TRUE, col |-> cols[i].name, cells |-> cells]
    ELSE MapColumnsPrepending(src_row, cols, i + 1,
                              <<ColumnCell(src_row, cols[i])>> \o cells)

\* The for loop over ctx.get_columns(), from column i on, with the cells
\* pushed so far: [err, col, cells].
RECURSIVE MapColumns(_, _, _, _)
MapColumns(src_row, cols, i, cells) ==
    IF i > Len(cols) THEN [err |-> FALSE, col |-> "", cells |-> cells]
    ELSE IF ColumnFails(src_row, cols[i])
    THEN [err |-> TRUE, col |-> cols[i].name, cells |-> cells]
    ELSE MapColumns(src_row, cols, i + 1,
                    Append(cells, ColumnCell(src_row, cols[i])))

(***************************************************************************)
(* Inputs of the entry points.                                             *)
(***************************************************************************)
\* The source's date literal Date(y,m,d), month and day written as they are.
DateLit(y, m, d) ==
    DatePrefix \o FormatPadded(y, 4) \o <<",">> \o ToDigits(m)
        \o <<",">> \o ToDigits(d) \o <<")">>

\* The rows a response can carry.  Between them every kind of source cell
\* stands at position 1 or 2: a plain string, a date literal, a number
\* (-2.5), the null marker, {"v": null}, an object without "v", and a
\* position past the end of the row.
RowPool ==
    << SrcRow(<<SrcCell(JStr(<<"a", "b">>)), SrcCell(JStr(DateLit(2023, 5, 10)))>>),
       SrcRow(<<SrcCell(JNum(-25))>>),
       SrcRow(<<SrcNullMarker, SrcCell(JNull)>>),
       SrcRow(<<SrcNoV>>) >>

\* The row arrays a response can carry: at most MaxRows consecutive rows of
\* the pool, starting at any of its rows and wrapping around at its end.
PoolRow(i) == RowPool[((i - 1) % Len(RowPool)) + 1]

RowLists ==
    {[k \in 1..len |-> PoolRow(first + k - 1)] :
        first \in 1..Len(RowPool), len \in 0..MaxRows}

\* Target columns: attribute number, name and type.  "Bool" stands for
\* every TypeOid the match of iter_scan has no arm for.
ColNums == {1, 2}
ColTypes == SupportedTypes \cup {"Bool"}
ColNames == <<"a", "b">>
Column(num, type) == [num |-> num, name |-> ColNames[num], type |-> type]
Columns == {Column(num, type) : num \in ColNums, type \in ColTypes}

\* ctx.get_columns(): any of the table's columns, in attribute order.
InOrder(columns) ==
    \A i \in 1..(Len(columns) - 1) : columns[i].num < columns[i + 1].num

ColumnSets ==
    {columns \in UNION {[1..len -> Columns] : len \in 0..Cardinality(ColNums)} :
        InOrder(columns)}

\* Foreign server options: base_url absent or given.
DefaultBaseUrl == "https://docs.google.com/spreadsheets/d"
BaseUrlOptions == {[present |-> FALSE, value |-> ""],
                   [present |-> TRUE, value |-> "https://example.test/d"]}

\* Foreign table options: sheet_id absent or given.
SheetIdOptions == {[present |-> FALSE, value |-> ""],
                   [present |-> TRUE, value |-> "sheet1"]}

\* What http::get returns: a transport error, or a body that has the
\* prefix ")]}'\n" or not, whose remainder is valid JSON or not, with
\* nothing, a non-array value or an array at /table/rows.
Response(transport_ok, prefix, json, rows_kind, rows) ==
    [transport_ok |-> transport_ok, prefix |-> prefix, json |-> json,
     rows_kind |-> rows_kind, rows |-> rows]

Responses ==
    {Response(FALSE, FALSE, FALSE, "absent", <<>>),
     Response(TRUE, FALSE, FALSE, "absent", <<>>),
     Response(TRUE, FALSE, TRUE, "array", <<RowPool[1]>>),
     Response(TRUE, TRUE, FALSE, "absent", <<>>),
     Response(TRUE, TRUE, TRUE, "absent", <<>>),
     Response(TRUE, TRUE, TRUE, "other", <<>>)}
    \cup {Response(TRUE, TRUE, TRUE, "array", rows) : rows \in RowLists}

(***************************************************************************)
(* Results of the entry points: FdwResult and Result<Option<u32>, _>.      *)
(* "Panic" is the abort of a failed unwrap.                                *)
(***************************************************************************)
Ok == [kind |-> "Ok", msg |-> "", col |-> ""]
OkSome == [kind |-> "Some", msg |-> "", col |-> ""]
OkNone == [kind |-> "None", msg |-> "", col |-> ""]
Err(msg) == [kind |-> "Err", msg |-> msg, col |-> ""]
ErrColumn(name) ==
    [kind |-> "Err", msg |-> "column data type is not supported", col |-> name]
Panic == [kind |-> "Panic", msg |-> "", col |-> ""]

(***************************************************************************)
(* State.                                                                  *)
(***************************************************************************)
VARIABLES
    base_url,     \* ExampleFdw.base_url of the instance INSTANCE points to
    src_rows,     \* ExampleFdw.src_rows
    src_idx,      \* ExampleFdw.src_idx
    alive,        \* FALSE once an entry point has panicked
    op,           \* the entry point called last
    result,       \* what it returned
    cols,         \* the columns the last iter_scan was asked for
    pushed,       \* the cells the last call pushed onto the host's row
    requests,     \* the requests the last call handed to http::get
    resp,         \* the response the last call received from http::get
    table_opts,   \* the sheet_id table option the last begin_scan was given
    produced,     \* rows produced since the last successful begin_scan
    nones,        \* times iter_scan has returned None since then
    inScan,       \* that scan has not been ended
    beginFailed,  \* the last begin_scan failed
    date_in,      \* how the decoder's last input was written
    date_src,     \* the decoder's last input, parse_date_from_interface's src
    date_cell     \* what the decoder returned for it

fdw == <<base_url, src_rows, src_idx>>
call == <<op, result, cols, pushed, requests, resp, table_opts>>
hist == <<produced, nones, inScan, beginFailed>>
dec == <<date_in, date_src, date_cell>>
vars == <<base_url, src_rows, src_idx, alive, op, result, cols, pushed,
          requests, resp, table_opts, produced, nones, inScan, beginFailed,
          date_in, date_src, date_cell>>

NoResponse == Response(FALSE, FALSE, FALSE, "absent", <<>>)

\* The call was given no table options to read.
NoOptions == [present |-> FALSE, value |-> ""]

\* opts.require_or("base_url", "https://docs.google.com/spreadsheets/d")
RequireOr(opt, default) == IF opt.present THEN opt.value ELSE default

\* Self::default(): the instance init_instance leaks and points INSTANCE to.
DefaultRows == <<>>
DefaultIdx == 0

\* No input has been given to the decoder yet.
NoDateInput == [shape |-> "none", y |-> 0, m |-> 0, d |-> 0]

\* The state after the host's first call of init.
Init ==
    /\ \E opt \in BaseUrlOptions : base_url = RequireOr(opt, DefaultBaseUrl)
    /\ src_rows = DefaultRows
    /\ src_idx = DefaultIdx
    /\ alive = TRUE
    /\ op = "init"
    /\ result = Ok
    /\ cols = <<>>
    /\ pushed = <<>>
    /\ requests = <<>>
    /\ resp = NoResponse
    /\ table_opts = NoOptions
    /\ produced = 0
    /\ nones = 0
    /\ inScan = FALSE
    /\ beginFailed = FALSE
    /\ date_in = NoDateInput
    /\ date_src = <<>>
    /\ date_cell = NoCell

\* init: a fresh default instance replaces the old one.
init ==
    /\ alive
    /\ \E opt \in BaseUrlOptions : base_url' = RequireOr(opt, DefaultBaseUrl)
    /\ src_rows' = DefaultRows
    /\ src_idx' = DefaultIdx
    /\ op' = "init"
    /\ result' = Ok
    /\ cols' = <<>>
    /\ pushed' = <<>>
    /\ requests' = <<>>
    /\ resp' = NoResponse
    /\ table_opts' = NoOptions
    /\ produced' = 0
    /\ inScan' = FALSE
    /\ UNCHANGED <<alive, nones, beginFailed, dec>>

(***************************************************************************)
(* begin_scan                                                              *)
(***************************************************************************)
\* The request begin_scan builds.
Request(url_base, sheet_id) ==
    [method  |-> "GET",
     url     |-> <<url_base, "/", sheet_id, "/gviz/tq?tqx=out:json">>,
     headers |-> <<<<"user-agent", "Sheets FDW">>,
                   <<"x-datasource-auth", "true">>>>,
     body    |-> ""]

\* A begin_scan that parses the body before it looks for the prefix.
BeginScanResultJsonFirst(r) ==
    IF ~r.transport_ok THEN Err("http error")
    ELSE IF ~r.json THEN Err("json parse error")
    ELSE IF ~r.prefix THEN Err("invalid response")
    ELSE IF r.rows_kind = "absent" THEN Err("cannot get rows from response")
    ELSE IF r.rows_kind # "array" THEN Panic
    ELSE Ok

\* What begin_scan returns for a response, steps in the order of the code.
BeginScanResult(r) ==
    IF ~r.transport_ok THEN Err("http error")
    ELSE IF ~r.prefix THEN Err("invalid response")
    ELSE IF ~r.json THEN Err("json parse error")
    ELSE IF r.rows_kind = "absent" THEN Err("cannot get rows from response")
    ELSE IF r.rows_kind # "array" THEN Panic
    ELSE Ok

\* The assignment this.src_rows = ... of a successful begin_scan.
StoreRows(old_rows, fetched) == fetched

\* A failing begin_scan that drops the rows it held.
RowsClearedOnError(old_rows) == <<>>

\* src_rows after a begin_scan that returns early through `?` (or panics
\* in unwrap): the assignment to this.src_rows is never reached.
RowsOnError(old_rows) == old_rows

\* A begin_scan that goes on with an empty sheet id.
SheetIdDefaulted(sheet) == FALSE

\* let sheet_id = opts.require("sheet_id")?: the option is absent.
SheetIdMissing(sheet) == ~sheet.present

\* The error opts.require returns for an absent option.
MissingOption == Err("required option sheet_id is not specified")

\* A begin_scan that sends the request again when the transport fails.
RetriedOnError(req, r) == IF r.transport_ok THEN <<req>> ELSE <<req, req>>

\* The requests handed to http::get for the request built: one call, whose
\* error is returned through `?`.
IssuedRequests(req, r) == <<req>>

\* src_idx after a successful begin_scan: the code does not assign it.
BeginScanIdx(idx) == idx

begin_scan ==
    /\ alive
    /\ \E sheet \in SheetIdOptions :
        IF SheetIdMissing(sheet)
        THEN \* opts.require("sheet_id")? fails before any request is made
             /\ table_opts' = sheet
             /\ result' = MissingOption
             /\ requests' = <<>>
             /\ resp' = NoResponse
             /\ beginFailed' = TRUE
             /\ src_rows' = RowsOnError(src_rows)
             /\ UNCHANGED <<base_url, src_idx>>
             /\ UNCHANGED <<alive, produced, nones, inScan>>
        ELSE \E r \in Responses :
             /\ table_opts' = sheet
             /\ requests' = IssuedRequests(Request(base_url, sheet.value), r)
             /\ resp' = r
             /\ result' = BeginScanResult(r)
             /\ IF BeginScanResult(r) = Ok
                THEN /\ src_rows' = StoreRows(src_rows, r.rows)
                     /\ src_idx' = BeginScanIdx(src_idx)
                     /\ produced' = 0
                     /\ nones' = 0
                     /\ inScan' = TRUE
                     /\ beginFailed' = FALSE
                     /\ UNCHANGED <<base_url, alive>>
                ELSE /\ alive' = (BeginScanResult(r) # Panic)
                     /\ beginFailed' = TRUE
                     /\ src_rows' = RowsOnError(src_rows)
                     /\ UNCHANGED <<base_url, src_idx, produced, nones, inScan>>
    /\ op' = "begin_scan"
    /\ cols' = <<>>
    /\ pushed' = <<>>
    /\ UNCHANGED dec

(***************************************************************************)
(* iter_scan                                                               *)
(***************************************************************************)
\* if this.src_idx >= this.src_rows.len() { return Ok(None); }
Consumed(idx, rows) == idx >= Len(rows)

\* A pull at the end of the rows that rewinds the cursor.
IdxRewound(idx) == 0

\* src_idx after the early return Ok(None): untouched.
IdxWhenConsumed(idx) == idx

\* A failing pull that steps over the row it failed on.
IdxSkippedOnError(idx) == idx + 1

\* src_idx after the early return Err(..) of the default match arm.
IdxOnError(idx) == idx

\* this.src_idx += 1
AdvanceIdx(idx) == idx + 1

iter_scan ==
    /\ alive
    /\ \E columns \in ColumnSets :
        /\ cols' = columns
        /\ IF Consumed(src_idx, src_rows)
           THEN /\ result' = OkNone
                /\ pushed' = <<>>
                /\ nones' = (IF nones < MaxNones THEN nones + 1 ELSE nones)
                /\ src_idx' = IdxWhenConsumed(src_idx)
                /\ UNCHANGED produced
           ELSE LET m == MapColumns(src_rows[src_idx + 1], columns, 1, <<>>)
                IN  /\ pushed' = m.cells
                    /\ IF m.err
                       THEN /\ result' = ErrColumn(m.col)
                            /\ src_idx' = IdxOnError(src_idx)
                            /\ UNCHANGED produced
                       ELSE /\ result' = OkSome
                            /\ src_idx' = AdvanceIdx(src_idx)
                            /\ produced' = produced + 1
                    /\ UNCHANGED nones
    /\ op' = "iter_scan"
    /\ requests' = <<>>
    /\ resp' = NoResponse
    /\ table_opts' = NoOptions
    /\ UNCHANGED <<base_url, src_rows, alive, inScan, beginFailed, dec>>

(***************************************************************************)
(* re_scan, end_scan and the modify entry points                           *)
(***************************************************************************)
\* A re_scan that reports success.
ReScanAccepted == Ok

ReScanResult == Err("re_scan on foreign table is not supported")

re_scan ==
    /\ alive
    /\ op' = "re_scan"
    /\ result' = ReScanResult
    /\ cols' = <<>>
    /\ pushed' = <<>>
    /\ requests' = <<>>
    /\ resp' = NoResponse
    /\ table_opts' = NoOptions
    /\ UNCHANGED <<fdw, alive, hist, dec>>

\* An end_scan that drops only the first buffered row.
FirstRowDropped(rows) == IF rows = <<>> THEN rows ELSE Tail(rows)

\* this.src_rows.clear()
ClearRows(rows) == <<>>

end_scan ==
    /\ alive
    /\ src_rows' = ClearRows(src_rows)
    /\ op' = "end_scan"
    /\ result' = Ok
    /\ cols' = <<>>
    /\ pushed' = <<>>
    /\ requests' = <<>>
    /\ resp' = NoResponse
    /\ table_opts' = NoOptions
    /\ produced' = 0
    /\ inScan' = FALSE
    /\ UNCHANGED <<base_url, src_idx, alive, nones, beginFailed, dec>>

\* An insert that is refused like begin_modify.
InsertRefused == Err("modify on foreign table is not supported")

BeginModifyResult == Err("modify on foreign table is not supported")
InsertResult == Ok
UpdateResult == Ok
DeleteResult == Ok
EndModifyResult == Ok

begin_modify ==
    /\ alive
    /\ op' = "begin_modify"
    /\ result' = BeginModifyResult
    /\ cols' = <<>>
    /\ pushed' = <<>>
    /\ requests' = <<>>
    /\ resp' = NoResponse
    /\ table_opts' = NoOptions
    /\ UNCHANGED <<fdw, alive, hist, dec>>

insert ==
    /\ alive
    /\ op' = "insert"
    /\ result' = InsertResult
    /\ cols' = <<>>
    /\ pushed' = <<>>
    /\ requests' = <<>>
    /\ resp' = NoResponse
    /\ table_opts' = NoOptions
    /\ UNCHANGED <<fdw, alive, hist, dec>>

update ==
    /\ alive
    /\ op' = "update"
    /\ result' = UpdateResult
    /\ cols' = <<>>
    /\ pushed' = <<>>
    /\ requests' = <<>>
    /\ resp' = NoResponse
    /\ table_opts' = NoOptions
    /\ UNCHANGED <<fdw, alive, hist, dec>>

delete ==
    /\ alive
    /\ op' = "delete"
    /\ result' = DeleteResult
    /\ cols' = <<>>
    /\ pushed' = <<>>
    /\ requests' = <<>>
    /\ resp' = NoResponse
    /\ table_opts' = NoOptions
    /\ UNCHANGED <<fdw, alive, hist, dec>>

end_modify ==
    /\ alive
    /\ op' = "end_modify"
    /\ result' = EndModifyResult
    /\ cols' = <<>>
    /\ pushed' = <<>>
    /\ requests' = <<>>
    /\ resp' = NoResponse
    /\ table_opts' = NoOptions
    /\ UNCHANGED <<fdw, alive, hist, dec>>

Next ==
    \/ init
    \/ begin_scan
    \/ iter_scan
    \/ re_scan
    \/ end_scan
    \/ begin_modify
    \/ insert
    \/ update
    \/ delete
    \/ end_modify

Spec == Init /\ [][Next]_vars

(***************************************************************************)
(* The date decoder on its own: parse_date_from_interface applied to       *)
(* inputs written in several shapes from a year, a month and a day.        *)
(***************************************************************************)
DateYears == {1900, 2000, 2023, 2024}
DateMonths == (0..12) \cup {99}
DateDays == {0, 10, 27, 28, 29, 30, 31, 99}

\* Shapes the pattern matches, with ASCII digits only.
LiteralShapes == {"plain", "padded"}
MatchingShapes == LiteralShapes \cup {"embedded"}
\* Shapes the pattern does not match.
OtherShapes == {"lowercase", "unclosed", "spaced", "year5", "month3", "empty"}
DateShapes == MatchingShapes \cup OtherShapes \cup {"unicode"}

WriteDate(shape, y, m, d) ==
    LET ys == FormatPadded(y, 4)
        ms == ToDigits(m)
        ds == ToDigits(d)
    IN  CASE shape = "plain" -> DateLit(y, m, d)
          [] shape = "padded" ->
                DatePrefix \o ys \o <<",">> \o FormatPadded(m, 2) \o <<",">>
                    \o FormatPadded(d, 2) \o <<")">>
          [] shape = "embedded" -> <<"x", "D">> \o DateLit(y, m, d) \o <<")", "1">>
          [] shape = "lowercase" ->
                <<"d", "a", "t", "e", "(">> \o ys \o <<",">> \o ms \o <<",">>
                    \o ds \o <<")">>
          [] shape = "unclosed" ->
                DatePrefix \o ys \o <<",">> \o ms \o <<",">> \o ds
          [] shape = "spaced" ->
                DatePrefix \o ys \o <<",", " ">> \o ms \o <<",", " ">> \o ds
                    \o <<")">>
          [] shape = "year5" ->
                DatePrefix \o <<"1">> \o ys \o <<",">> \o ms \o <<",">> \o ds
                    \o <<")">>
          [] shape = "month3" ->
                DatePrefix \o ys \o <<",", "1">> \o FormatPadded(m, 2) \o <<",">>
                    \o ds \o <<")">>
          [] shape = "unicode" ->
                DatePrefix \o ys \o <<",">> \o ms \o <<",", UnicodeDigit>>
                    \o <<")">>
          [] OTHER -> <<>>

InitDate ==
    /\ Init
    /\ base_url = DefaultBaseUrl

\* One call of the decoder, on any of the inputs.
decode_date ==
    /\ date_in = NoDateInput
    /\ \E shape \in DateShapes, y \in DateYears, m \in DateMonths, d \in DateDays :
        /\ date_in' = [shape |-> shape, y |-> y, m |-> m, d |-> d]
        /\ date_src' = WriteDate(shape, y, m, d)
        /\ date_cell' = parse_date_from_interface(WriteDate(shape, y, m, d))
    /\ UNCHANGED <<fdw, alive, call, hist>>

NextDate == decode_date

SpecDate == InitDate /\ [][NextDate]_vars

(***************************************************************************)
(* Properties of the scan lifecycle.                                       *)
(***************************************************************************)
\* A call of the entry point `name` has just returned.
Called(name) == op' = name /\ alive

\* C1: in a scan opened by a successful begin_scan, once iter_scan has
\* returned None the number of rows it produced before equals the number of
\* rows that begin_scan fetched.
C1_ProducedEqualsFetched ==
    (inScan /\ nones > 0) => produced = Len(src_rows)

\* C2: right after a successful begin_scan the cursor is 0 and src_rows is
\* the row array of the response just fetched.
C2_BeginScanResets ==
    (op = "begin_scan" /\ result = Ok) => (src_idx = 0 /\ src_rows = resp.rows)

\* C3: the cursor always lies in 0 .. len(src_rows), and no call other than
\* init and begin_scan (which start a scan) decreases it.
C3_CursorInRange ==
    [][/\ 0 <= src_idx'
       /\ src_idx' <= Len(src_rows')
       /\ (op' \notin {"init", "begin_scan"} => src_idx' >= src_idx)]_vars

\* C4: once iter_scan has returned None, every later iter_scan before the
\* next successful begin_scan returns None again, pushes no cell and leaves
\* the cursor and the rows as they are.
C4_ExhaustionIsSticky ==
    [][(nones > 0 /\ Called("iter_scan")) =>
          /\ result' = OkNone
          /\ pushed' = <<>>
          /\ src_idx' = src_idx
          /\ src_rows' = src_rows]_vars

\* C4 witness: a second None in a scan that produced rows, with the rows
\* still buffered.
C4_Witness ==
    /\ op = "iter_scan"
    /\ result = OkNone
    /\ nones >= 2
    /\ produced > 0
    /\ src_rows # <<>>

\* C5: re_scan can be called in every state, fails with its "not supported"
\* error, and leaves base_url, src_rows and src_idx unchanged.
C5_ReScanUnsupported ==
    [][/\ alive => ENABLED re_scan
       /\ Called("re_scan") =>
            /\ result'.kind = "Err"
            /\ result'.msg = "re_scan on foreign table is not supported"
            /\ fdw' = fdw]_vars

\* C5 witness: re_scan called in the middle of an open scan.
C5_Witness ==
    /\ op = "re_scan"
    /\ result.kind = "Err"
    /\ inScan
    /\ produced > 0
    /\ src_idx < Len(src_rows)

\* C6: end_scan can be called in every state, succeeds and leaves src_rows
\* empty (base_url and src_idx as they were); clearing twice gives what
\* clearing once gives, and an end_scan right after an end_scan changes
\* neither the instance nor the result.
C6_EndScanClears ==
    [][/\ alive => ENABLED end_scan
       /\ ClearRows(ClearRows(src_rows)) = ClearRows(src_rows)
       /\ Called("end_scan") =>
            /\ result' = Ok
            /\ src_rows' = <<>>
            /\ base_url' = base_url
            /\ src_idx' = src_idx
       /\ (op = "end_scan" /\ Called("end_scan")) =>
            /\ fdw' = fdw
            /\ result' = result]_vars

\* C6 witness: end_scan has ended a scan some of whose rows were pulled.
C6_Witness ==
    /\ op = "end_scan"
    /\ result = Ok
    /\ src_rows = <<>>
    /\ src_idx > 0
    /\ ~inScan

\* C7: after a failed begin_scan, and until the next successful
\* one, src_rows is empty and iter_scan returns None and pushes nothing.
C7_FailedBeginLeavesNoRows ==
    beginFailed =>
        /\ src_rows = <<>>
        /\ op = "iter_scan" => (result = OkNone /\ pushed = <<>>)

\* C8: the modify entry points can be called in every state; begin_modify
\* fails with its "not supported" error, insert, update, delete and
\* end_modify return Ok; none changes base_url, src_rows or src_idx and none
\* issues a request.
ModifyOps == {"begin_modify", "insert", "update", "delete", "end_modify"}

C8_ModifyStubs ==
    [][/\ alive => /\ ENABLED begin_modify
                   /\ ENABLED insert
                   /\ ENABLED update
                   /\ ENABLED delete
                   /\ ENABLED end_modify
       /\ Called("begin_modify") =>
            /\ result'.kind = "Err"
            /\ result'.msg = "modify on foreign table is not supported"
       /\ op' \in ModifyOps \ {"begin_modify"} => result' = Ok
       /\ op' \in ModifyOps => (fdw' = fdw /\ requests' = <<>>)]_vars

\* C8 witness: insert has returned Ok in the middle of an open scan (no
\* begin_modify ever succeeds).
C8_Witness ==
    /\ op = "insert"
    /\ result = Ok
    /\ inScan
    /\ src_idx > 0
    /\ src_idx < Len(src_rows)

\* C13: within a scan the rows iter_scan produces are the stored rows at
\* positions 0, 1, 2, ...: the k-th row produced since the last successful
\* begin_scan is the mapping of src_rows[k - 1], so the cursor stands at k.
C13_RowsInOrder ==
    (inScan /\ op = "iter_scan" /\ result = OkSome) =>
        /\ src_idx = produced
        /\ pushed = MapColumns(src_rows[produced], cols, 1, <<>>).cells

\* C14: src_rows changes only in a begin_scan that returns Ok, which stores
\* the rows it fetched, and in end_scan, which empties it; iter_scan,
\* re_scan, a begin_scan that does not return Ok and the modify entry points
\* leave it as it was.
C14_RowsChangeOnlyOnBeginAndEnd ==
    [][/\ (\E name \in {"iter_scan", "re_scan"} \cup ModifyOps : Called(name)) =>
            src_rows' = src_rows
       /\ (Called("begin_scan") /\ result' # Ok) => src_rows' = src_rows
       /\ (Called("begin_scan") /\ result' = Ok) => src_rows' = resp'.rows
       /\ Called("end_scan") => src_rows' = <<>>]_vars

\* C14 witness: a begin_scan failed while rows were stored, and they still are.
C14_Witness ==
    /\ op = "begin_scan"
    /\ result.kind = "Err"
    /\ requests # <<>>
    /\ src_rows # <<>>

\* C15: a begin_scan that is given a sheet_id sends exactly one GET request,
\* whether the request succeeds or not, and one that is given none sends no
\* request; no other entry point sends a request.  The rows stored after a
\* successful begin_scan are the rows of its own response, and a row is
\* produced only between a successful begin_scan and the next end_scan.
C15_OneRequestPerBeginScan ==
    /\ (op = "begin_scan" /\ table_opts.present) =>
        /\ Len(requests) = 1
        /\ requests[1].method = "GET"
        /\ requests[1].url =
             <<base_url, "/", table_opts.value, "/gviz/tq?tqx=out:json">>
    /\ (op = "begin_scan" /\ ~table_opts.present) => requests = <<>>
    /\ op # "begin_scan" => requests = <<>>
    /\ (op = "begin_scan" /\ result = Ok) => src_rows = resp.rows
    /\ (op = "iter_scan" /\ result = OkSome) => inScan

\* C15 witness: a begin_scan whose request failed in the transport has sent
\* one request.
C15_Witness ==
    /\ op = "begin_scan"
    /\ table_opts.present
    /\ ~resp.transport_ok
    /\ result.kind = "Err"
    /\ Len(requests) = 1

\* C16: a begin_scan that is given no sheet_id returns the error of the
\* missing option, sends no request, and leaves base_url, src_rows and
\* src_idx as they were.
C16_MissingSheetIdFailsEarly ==
    [][(Called("begin_scan") /\ ~table_opts'.present) =>
        /\ result' = [kind |-> "Err", col |-> "",
                      msg |-> "required option sheet_id is not specified"]
        /\ requests' = <<>>
        /\ base_url' = base_url
        /\ src_rows' = src_rows
        /\ src_idx' = src_idx]_vars

\* C16 witness: a begin_scan without sheet_id has failed with rows stored and
\* the cursor past the first of them.
C16_Witness ==
    /\ op = "begin_scan"
    /\ ~table_opts.present
    /\ result.kind = "Err"
    /\ requests = <<>>
    /\ src_rows # <<>>
    /\ src_idx > 0

\* C17: begin_scan checks a response it received in a fixed order: without
\* the prefix it returns "invalid response" whatever follows; with the
\* prefix and a body that is no JSON it returns the parser's error; with
\* valid JSON that has nothing at /table/rows it returns "cannot get rows
\* from response"; it returns Ok, with the rows stored, only for a response
\* that passes all three checks.
C17_ResponseChecksInOrder ==
    (op = "begin_scan" /\ requests # <<>> /\ resp.transport_ok) =>
        /\ ~resp.prefix =>
             result = [kind |-> "Err", col |-> "", msg |-> "invalid response"]
        /\ (resp.prefix /\ ~resp.json) =>
             result = [kind |-> "Err", col |-> "", msg |-> "json parse error"]
        /\ (resp.prefix /\ resp.json /\ resp.rows_kind = "absent") =>
             result = [kind |-> "Err", col |-> "",
                       msg |-> "cannot get rows from response"]
        /\ result = Ok =>
             /\ resp.prefix
             /\ resp.json
             /\ resp.rows_kind = "array"
             /\ src_rows = resp.rows

\* C17 witness: a body without the prefix whose remainder is valid JSON with
\* rows was refused as an invalid response.
C17_Witness ==
    /\ op = "begin_scan"
    /\ resp.transport_ok
    /\ ~resp.prefix
    /\ resp.json
    /\ resp.rows_kind = "array"
    /\ result.msg = "invalid response"

\* C18: a begin_scan whose response has a value that is no array at
\* /table/rows returns an error; it does not abort.
C18_NonArrayRowsIsAnError ==
    (/\ op = "begin_scan"
     /\ resp.transport_ok
     /\ resp.prefix
     /\ resp.json
     /\ resp.rows_kind = "other") =>
        /\ result.kind = "Err"
        /\ alive

\* C19: an iter_scan that returns the "data type is not supported" error
\* leaves src_idx and src_rows as they were, so that the same columns fail
\* on the same row, with the same error, when it is called again.
C19_FailedPullKeepsCursor ==
    [][(Called("iter_scan") /\ result'.kind = "Err") =>
        /\ src_idx' = src_idx
        /\ src_rows' = src_rows
        /\ src_idx' < Len(src_rows')
        /\ LET again == MapColumns(src_rows'[src_idx' + 1], cols', 1, <<>>)
           IN  /\ again.err
               /\ again.col = result'.col]_vars

\* C19 witness: iter_scan failed on the second of two rows, after a cell of
\* that row had been pushed.
C19_Witness ==
    /\ op = "iter_scan"
    /\ result.kind = "Err"
    /\ Len(src_rows) = 2
    /\ src_idx = 1
    /\ Len(pushed) = 1

(***************************************************************************)
(* Properties of the cell mapping.                                         *)
(***************************************************************************)
\* The source row the last iter_scan worked on, when it did not return None:
\* the cursor has moved past it exactly when a row was produced.
MappedRow ==
    IF result.kind = "Some" THEN src_rows[src_idx] ELSE src_rows[src_idx + 1]

\* The row has no cell at the column's position: it is too short, or the
\* element there is the null marker.
PositionMissing(src_row, num) ==
    \/ ~src_row.hasC
    \/ num > Len(src_row.c)
    \/ ~src_row.c[num].obj

\* C9: when iter_scan maps a row, a requested column whose position is
\* missing from the row gets a None cell, and the error iter_scan may return
\* does not name that column.
C9_MissingPositionGivesNone ==
    (op = "iter_scan" /\ result.kind \in {"Some", "Err"}) =>
        \A i \in 1..Len(cols) :
            PositionMissing(MappedRow, cols[i].num) =>
                /\ ~(result.kind = "Err" /\ result.col = cols[i].name)
                /\ i <= Len(pushed) => pushed[i] = NoCell

\* C9 witness: a row was produced with a None cell for a column of an
\* unsupported type whose position is missing.
C9_Witness ==
    /\ op = "iter_scan"
    /\ result = OkSome
    /\ \E i \in 1..Len(cols) :
        /\ PositionMissing(MappedRow, cols[i].num)
        /\ cols[i].type = "Bool"
        /\ pushed[i] = NoCell

\* The row has a cell with a member "v" at the column's position.
PositionPresent(src_row, num) ==
    /\ src_row.hasC
    /\ num <= Len(src_row.c)
    /\ src_row.c[num].obj
    /\ src_row.c[num].hasV

\* The requested columns of the last iter_scan whose type is none of I64,
\* String and Date, and those of them whose position the mapped row has.
Unsupported == {i \in 1..Len(cols) : cols[i].type \notin {"I64", "String", "Date"}}

UnsupportedPresent ==
    {i \in Unsupported : PositionPresent(MappedRow, cols[i].num)}

\* C11 as stated: when iter_scan maps a row and some requested column has a
\* type other than I64, String and Date, it returns the "data type is not
\* supported" error for such a column, whatever the row holds.
C11_UnsupportedTypeFails ==
    (op = "iter_scan" /\ result.kind \in {"Some", "Err"} /\ Unsupported # {}) =>
        /\ result.kind = "Err"
        /\ \E i \in Unsupported : result.col = cols[i].name

\* C11 amended: when iter_scan maps a row, it returns the "data type is not
\* supported" error exactly when some requested column of a type other than
\* I64, String and Date has its position present in the row; the error names
\* the first such column and no row is produced.  When every column of such
\* a type has its position missing, the row is produced.
C11_PresentUnsupportedFails ==
    (op = "iter_scan" /\ result.kind \in {"Some", "Err"}) =>
        /\ UnsupportedPresent # {} =>
            /\ result.kind = "Err"
            /\ result.msg = "column data type is not supported"
            /\ \E i \in UnsupportedPresent :
                /\ result.col = cols[i].name
                /\ \A j \in UnsupportedPresent : i <= j
        /\ UnsupportedPresent = {} => result = OkSome

\* C11 witness: iter_scan failed on a Bool column whose cell is {"v": null}.
C11_Witness ==
    /\ op = "iter_scan"
    /\ result.kind = "Err"
    /\ \E i \in UnsupportedPresent :
        /\ result.col = cols[i].name
        /\ cols[i].type = "Bool"
        /\ MappedRow.c[cols[i].num].v = JNull

\* The raw value cannot be used for a column of the type: no number for
\* I64, no string for String, no string or a string without "Date(" for Date.
Unusable(type_oid, v) ==
    \/ type_oid = "I64" /\ v.t # "num"
    \/ type_oid = "String" /\ v.t # "str"
    \/ type_oid = "Date" /\ v.t # "str"
    \/ type_oid = "Date" /\ ~\E k \in 1..Len(v.s) : Lit(v.s, k, DatePrefix)

\* C12: the only error iter_scan returns is "data type is not supported" for
\* a requested column of a type other than I64, String and Date.  When every
\* requested column is of one of the three types, an iter_scan that maps a
\* row produces it, with one cell per column, and a present value that
\* cannot be used for its column's type gives a None cell.
C12_OnlyUnsupportedTypeFails ==
    /\ op = "iter_scan" =>
        \/ result \in {OkSome, OkNone}
        \/ /\ result.kind = "Err"
           /\ result.msg = "column data type is not supported"
           /\ \E i \in Unsupported : result.col = cols[i].name
    /\ (op = "iter_scan" /\ result.kind \in {"Some", "Err"} /\ Unsupported = {}) =>
        /\ result = OkSome
        /\ Len(pushed) = Len(cols)
        /\ \A i \in 1..Len(cols) :
            (/\ PositionPresent(MappedRow, cols[i].num)
             /\ Unusable(cols[i].type, MappedRow.c[cols[i].num].v)) =>
                pushed[i] = NoCell

\* C12 witness: a row was produced with a None cell for an I64 column whose
\* value is a string and for a Date column whose string holds no date.
C12_Witness ==
    /\ op = "iter_scan"
    /\ result = OkSome
    /\ Unsupported = {}
    /\ \E i \in 1..Len(cols) :
        /\ cols[i].type = "I64"
        /\ PositionPresent(MappedRow, cols[i].num)
        /\ MappedRow.c[cols[i].num].v.t = "str"
        /\ pushed[i] = NoCell
    /\ \E i \in 1..Len(cols) :
        /\ cols[i].type = "Date"
        /\ PositionPresent(MappedRow, cols[i].num)
        /\ MappedRow.c[cols[i].num].v.t = "str"
        /\ pushed[i] = NoCell

\* C20: an iter_scan that produces a row was called with the cursor on a
\* row, pushes one cell per requested column, the i-th cell being the cell
\* of the i-th requested column for that row, and moves the cursor forward
\* by exactly one.
C20_OneCellPerColumn ==
    [][(Called("iter_scan") /\ result' = OkSome) =>
        /\ src_idx < Len(src_rows)
        /\ src_idx' = src_idx + 1
        /\ Len(pushed') = Len(cols')
        /\ \A i \in 1..Len(cols') :
            pushed'[i] = ColumnCell(src_rows[src_idx + 1], cols'[i])]_vars

\* C20 witness: a row of two distinct cells was produced for two columns.
C20_Witness ==
    /\ op = "iter_scan"
    /\ result = OkSome
    /\ Len(cols) = 2
    /\ Len(pushed) = 2
    /\ pushed[1] # pushed[2]
    /\ pushed[2] # NoCell

(***************************************************************************)
(* Properties of the date decoder.                                         *)
(***************************************************************************)
\* The cell of the calendar date y-(m+1)-(d+1), None when there is no such
\* date.
AdjustedDate(y, m, d) ==
    IF ValidYmd(y, m + 1, d + 1)
    THEN CellDate(DaysFromCivil(y, m + 1, d + 1))
    ELSE NoCell

\* C10: for an input Date(y,m,d) the decoder returns the date y-(m+1)-(d+1)
\* when that is a calendar date and None otherwise (Date(2023,5,10) gives
\* 2023-06-11, day 19519 of the epoch); for an input the pattern does not
\* match, or whose digits do not parse, it returns None; it returns a Date
\* cell or None, nothing else.
C10_DateDecoder ==
    date_in.shape # "none" =>
        /\ date_cell.tag \in {"Date", "None"}
        /\ date_in.shape \in MatchingShapes =>
             date_cell = AdjustedDate(date_in.y, date_in.m, date_in.d)
        /\ date_in.shape \in OtherShapes \cup {"unicode"} => date_cell = NoCell
        /\ date_in = [shape |-> "plain", y |-> 2023, m |-> 5, d |-> 10] =>
             date_cell = CellDate(19519)

\* C10 witness: Date(2023,5,10) has been decoded to a date.
C10_Witness ==
    /\ date_in = [shape |-> "plain", y |-> 2023, m |-> 5, d |-> 10]
    /\ date_cell.tag = "Date"

====
